---- MODULE Spec2Model ----
(***************************************************************************)
(* A model of src/bot.py: the EducationBot event handlers (handle_message, *)
(* handle_tip), the per-user rate limiter (_can_reply, _mark_sent), the    *)
(* bounded per-user history (recent_messages) and the generative call with *)
(* its canned-tip fallback (_generate_reply).                              *)
(*                                                                         *)
(* A handler is a coroutine.  Each of its runs is a task; a task moves in  *)
(* steps that are cut at the coroutine's awaits, the only places where     *)
(* another task or the clock can act between two of its statements.        *)
(***************************************************************************)
EXTENDS Integers, Sequences, FiniteSets, TLC

\* ------------------------------------------------------------------ bounds
MaxTime == 3       \* the clock stops ticking here
MaxEvents == 3     \* events dispatched in one behaviour
MaxRaceTime == 2   \* where the clock stops under concurrent dispatch
MaxContentLen == 2 \* longest completion text the external service returns
MaxHistoryEvents == 12  \* events of the long run that fills a history
MaxGenerateEvents == 2  \* events of the run that tries every response
MaxScenarioTime == 6    \* where the clock stops in the 0 / 3 / 6 scenario
MaxRawLen == 3          \* longest WOMEN_USER_IDS that is tried in full
MaxPromptEvents == 12   \* events of the run that looks at the prompts

\* ------------------------------------------------------- program constants
HistoryLimit == 10 \* the literal 10 of handle_message

\* The eight canned tips.  A text is a sequence of characters; the tips are
\* eight distinct non-empty texts.
TIPS == << <<"T", "1">>, <<"T", "2">>, <<"T", "3">>, <<"T", "4">>,
           <<"T", "5">>, <<"T", "6">>, <<"T", "7">>, <<"T", "8">> >>

\* ------------------------------------------------------------ input sets
Users == {1, 2}                 \* user.id of the senders
NoUser == 0                     \* update.effective_user is None
NoText == ""                    \* message.text is None or ""
Tasks == {1, 2}                 \* slots for the handler coroutines in flight
Whitespace == {" ", "\n"}       \* what str.strip() removes
Chars == {" ", "\n", "x"}       \* characters of a completion

\* What the environment holds for load_config in the general runs: the
\* texts of WOMEN_USER_IDS and of MIN_REPLY_SECONDS.
AllowLists == {<<>>, <<"1">>}
Windows == {<<"2">>}

\* The default of OPENAI_MODEL, "gpt-4o-mini".
DefaultModel == <<"g", "p", "t", "-", "4", "o", "-", "m", "i", "n", "i">>

\* The characters of a WOMEN_USER_IDS that is tried in full: decimal digits,
\* the separator, a blank, a letter, and SUPERSCRIPT TWO, a character for
\* which str.isdigit() is true and which int() does not accept.
RawChars == {"1", "2", ",", " ", "a", "²"}

\* The WOMEN_USER_IDS of the specification's example.
ExampleRaw ==
    <<"1", ",", " ", "2", ",", " ", "a", "b", "c", ",", " ", "3">>

VARIABLES
    environ,            \* os.environ: a dict name -> text of the names set
    boot,               \* main: before load_config, running, or failed
    error,              \* the exception that ended main, "none" without one
    token,              \* config.token
    openai_api_key,     \* config.openai_api_key
    openai_model,       \* config.openai_model
    women_user_ids,     \* config.women_user_ids
    min_reply_seconds,  \* config.min_reply_seconds
    last_sent,          \* self.last_sent: a dict user id -> time
    recent_messages,    \* self.recent_messages: a dict user id -> list of texts
    now,                \* time.time()
    tasks,              \* the handler coroutines: where each one stands
    nevents,            \* history: how many events were dispatched
    recorded,           \* history: every text appended for a user, in order
    last_mark,          \* history: when _mark_sent last ran for a user
    replied_to          \* history: the users a message reply was delivered to

vars == <<environ, boot, error, token, openai_api_key, openai_model,
          women_user_ids, min_reply_seconds, last_sent, recent_messages, now,
          tasks, nevents, recorded, last_mark, replied_to>>

config == <<environ, boot, error, token, openai_api_key, openai_model,
            women_user_ids, min_reply_seconds>>
history == <<recorded, last_mark, replied_to>>

\* ------------------------------------------------------------ pure helpers

\* dict.get(key, default)
Get(d, key, default) == IF key \in DOMAIN d THEN d[key] ELSE default

\* d[key] = value
Put(d, key, value) ==
    [k \in DOMAIN d \cup {key} |-> IF k = key THEN value ELSE d[k]]

\* list[-n:]
LastN(s, n) == IF Len(s) <= n THEN s ELSE SubSeq(s, Len(s) - n + 1, Len(s))

\* str.strip(): drop the leading and the trailing whitespace.
RECURSIVE lstrip(_)
lstrip(s) ==
    IF s # <<>> /\ Head(s) \in Whitespace THEN lstrip(Tail(s)) ELSE s

RECURSIVE rstrip(_)
rstrip(s) ==
    IF s # <<>> /\ s[Len(s)] \in Whitespace
    THEN rstrip(SubSeq(s, 1, Len(s) - 1))
    ELSE s

strip(s) == rstrip(lstrip(s))

\* All texts over Chars of length at most n.
RECURSIVE SeqsUpTo(_)
SeqsUpTo(n) ==
    IF n = 0 THEN {<<>>}
    ELSE LET shorter == SeqsUpTo(n - 1)
         IN shorter \cup {Append(s, c) : s \in shorter, c \in Chars}

\* ------------------------------------------------------ the configuration

\* str.isdigit() is true of a character: the decimal digits, and characters
\* such as the superscript digits that are digits without being decimal.
DecimalDigits == {"0", "1", "2", "3", "4", "5", "6", "7", "8", "9"}
OtherDigits == {"²"}

\* The value of a decimal digit.
DigitValue(c) ==
    CASE c = "0" -> 0 [] c = "1" -> 1 [] c = "2" -> 2 [] c = "3" -> 3
      [] c = "4" -> 4 [] c = "5" -> 5 [] c = "6" -> 6 [] c = "7" -> 7
      [] c = "8" -> 8 [] c = "9" -> 9

\* str.isdigit(): not empty, and every character is a digit.
isdigit(s) ==
    s # <<>> /\ \A i \in 1 .. Len(s) : s[i] \in DecimalDigits \cup OtherDigits

\* The number that a text of decimal digits denotes.
RECURSIVE DecimalValue(_)
DecimalValue(s) ==
    IF s = <<>> THEN 0
    ELSE 10 * DecimalValue(SubSeq(s, 1, Len(s) - 1)) + DigitValue(s[Len(s)])

IsDecimalDigit(c) == c \in DecimalDigits

\* int(s) of a text: surrounding whitespace is dropped, a sign may lead, and
\* what is left is decimal digits, single underscores allowed between them;
\* ValueError for every other text.
int(s) ==
    LET text == strip(s)
        signed == text # <<>> /\ text[1] \in {"+", "-"}
        body == IF signed THEN Tail(text) ELSE text
        wellformed ==
            /\ body # <<>>
            /\ \A i \in 1 .. Len(body) : body[i] \in DecimalDigits \cup {"_"}
            /\ body[1] # "_" /\ body[Len(body)] # "_"
            /\ \A i \in 1 .. Len(body) - 1 :
                   ~(body[i] = "_" /\ body[i + 1] = "_")
        magnitude == DecimalValue(SelectSeq(body, IsDecimalDigit))
    IN IF wellformed
       THEN [raised |-> FALSE,
             value |-> IF signed /\ text[1] = "-"
                       THEN 0 - magnitude ELSE magnitude]
       ELSE [raised |-> TRUE, value |-> 0]

\* str.split(","): the texts between the commas, in order.
RECURSIVE split(_)
split(s) ==
    IF \A i \in 1 .. Len(s) : s[i] # ","
    THEN <<s>>
    ELSE LET k == CHOOSE i \in 1 .. Len(s) :
                      s[i] = "," /\ \A j \in 1 .. i - 1 : s[j] # ","
         IN <<SubSeq(s, 1, k - 1)>> \o split(SubSeq(s, k + 1, Len(s)))

\* parse_user_ids: the set of int(value.strip()) for the values of
\* raw.split(",") whose value.strip().isdigit() holds; the ValueError of an
\* int() leaves the function.
parse_user_ids(raw) ==
    IF raw = <<>>
    THEN [raised |-> FALSE, value |-> {}]
    ELSE LET values == split(raw)
             kept == {i \in 1 .. Len(values) : isdigit(strip(values[i]))}
         IN IF \E i \in kept : int(strip(values[i])).raised
            THEN [raised |-> TRUE, value |-> {}]
            ELSE [raised |-> FALSE,
                  value |-> {int(strip(values[i])).value : i \in kept}]

\* The BotConfig that is in no state: load_config has not returned one.
NoConfig ==
    [token |-> <<>>, openai_api_key |-> <<>>, openai_model |-> <<>>,
     women_user_ids |-> {}, min_reply_seconds |-> 0]

\* load_config: the BotConfig read from the environment `env`, or the
\* exception that leaves it: RuntimeError without a token or without a key,
\* ValueError of parse_user_ids or of the int() of MIN_REPLY_SECONDS.
load_config(env) ==
    LET tok == strip(Get(env, "BOT_TOKEN", <<>>))
        first_key == strip(Get(env, "OPENAI_API_KEY", <<>>))
        key == IF first_key = <<>>
               THEN strip(Get(env, "CHAT_GPT_TOKEN", <<>>))
               ELSE first_key
        model == strip(Get(env, "OPENAI_MODEL", DefaultModel))
        ids == parse_user_ids(Get(env, "WOMEN_USER_IDS", <<>>))
        seconds == int(Get(env, "MIN_REPLY_SECONDS", <<"3">>))
    IN IF tok = <<>>
       THEN [raised |-> "RuntimeError: BOT_TOKEN is required",
             value |-> NoConfig]
       ELSE IF key = <<>>
       THEN [raised |->
                 "RuntimeError: OPENAI_API_KEY or CHAT_GPT_TOKEN is required",
             value |-> NoConfig]
       ELSE IF ids.raised
       THEN [raised |-> "ValueError: parse_user_ids", value |-> NoConfig]
       ELSE IF seconds.raised
       THEN [raised |-> "ValueError: MIN_REPLY_SECONDS", value |-> NoConfig]
       ELSE [raised |-> "none",
             value |-> [token |-> tok, openai_api_key |-> key,
                        openai_model |-> model,
                        women_user_ids |-> ids.value,
                        min_reply_seconds |-> seconds.value]]

\* An environment with a token and a key, and the two settings of the bot.
EnvWith(ids, seconds) ==
    [name \in {"BOT_TOKEN", "OPENAI_API_KEY", "WOMEN_USER_IDS",
               "MIN_REPLY_SECONDS"} |->
        CASE name = "BOT_TOKEN" -> <<"t">>
          [] name = "OPENAI_API_KEY" -> <<"k">>
          [] name = "WOMEN_USER_IDS" -> ids
          [] name = "MIN_REPLY_SECONDS" -> seconds]

\* --------------------------------------------------- the external service

\* What the call of _request can come to: a completion with some content, an
\* exception of the client (network error, timeout), a response without
\* choices (IndexError) or one whose content is None (AttributeError).
Failures == {"error", "no_choices", "null_content"}

ResponsesUpTo(n) ==
    {[kind |-> "ok", content |-> c] : c \in SeqsUpTo(n)}
        \cup {[kind |-> k, content |-> <<>>] : k \in Failures}

Responses == ResponsesUpTo(MaxContentLen)

NoResponse == [kind |-> "none", content |-> <<>>]

\* _request: response.choices[0].message.content.strip(), or the exception.
_request(resp) ==
    IF resp.kind = "ok"
    THEN [raised |-> FALSE, value |-> strip(resp.content)]
    ELSE [raised |-> TRUE, value |-> <<>>]

\* A slip in _generate_reply: the emptiness of the result is not tested.
_generate_reply_unchecked(resp, choice) ==
    LET result == _request(resp)
    IN IF ~result.raised THEN result.value ELSE TIPS[choice]

\* _generate_reply: the result of _request when it is not empty; a tip
\* (random.choice(TIPS), here TIPS[choice]) when it is empty or when the
\* call raised.
_generate_reply(resp, choice) ==
    LET result == _request(resp)
    IN IF ~result.raised /\ result.value # <<>>
       THEN result.value
       ELSE TIPS[choice]

\* ------------------------------------------------------ the rate limiter

\* A slip in _can_reply: the window is one second short.
_can_reply_early(user) ==
    user \notin DOMAIN last_sent
        \/ (now - last_sent[user]) >= min_reply_seconds - 1

\* A slip in _can_reply: the boundary is excluded.
_can_reply_strict(user) ==
    user \notin DOMAIN last_sent
        \/ (now - last_sent[user]) > min_reply_seconds

_can_reply(user) ==
    LET last == Get(last_sent, user, -1)
    IN IF user \notin DOMAIN last_sent
       THEN TRUE
       ELSE (now - last) >= min_reply_seconds

\* A slip in _mark_sent: setdefault for the assignment, so only the first
\* send is recorded.
_mark_sent_first_only(user) ==
    IF user \in DOMAIN last_sent THEN last_sent ELSE Put(last_sent, user, now)

_mark_sent(user) == Put(last_sent, user, now)

\* ------------------------------------------------------- the access gate

\* A slip in the gate: the test of the allow-list is left out.
AllowedEveryone(user) == TRUE

\* A slip in the gate: an empty allow-list allows nobody.
AllowedMembersOnly(user) == user \in women_user_ids

\* not (women_user_ids and user.id not in women_user_ids)
Allowed(user) == ~(women_user_ids # {} /\ user \notin women_user_ids)

\* ----------------------------------------------------------- the history

\* A slip in the truncation: history[:10], the oldest ten, is kept.
RecordKeepsOldest(user, text) ==
    LET appended == Append(Get(recent_messages, user, <<>>), text)
    IN Put(recent_messages, user,
           IF Len(appended) > HistoryLimit
           THEN SubSeq(appended, 1, HistoryLimit)
           ELSE appended)

\* A slip in the recording: get(user, []) for setdefault(user, []), so the
\* list of a user without an entry is appended to and then dropped.
RecordLost(user, text) ==
    IF user \in DOMAIN recent_messages
    THEN Put(recent_messages, user, Append(recent_messages[user], text))
    ELSE recent_messages

\* history = setdefault(user, []); history.append(text);
\* if len(history) > 10: recent_messages[user] = history[-10:]
Record(user, text) ==
    LET appended == Append(Get(recent_messages, user, <<>>), text)
    IN Put(recent_messages, user,
           IF Len(appended) > HistoryLimit
           THEN LastN(appended, HistoryLimit)
           ELSE appended)

\* A slip in the prompt: the lines are numbered from 0.
BuildPromptFromZero(hist) ==
    IF hist # <<>>
    THEN [kind |-> "history",
          lines |-> [i \in 1 .. Len(hist) |-> <<i - 1, hist[i]>>]]
    ELSE [kind |-> "generic", lines |-> <<>>]

\* The prompt of handle_message: the lines "index + 1. text" of the history
\* between a fixed header and footer, or the generic prompt.
BuildPrompt(hist) ==
    IF hist # <<>>
    THEN [kind |-> "history",
          lines |-> [i \in 1 .. Len(hist) |-> <<(i - 1) + 1, hist[i]>>]]
    ELSE [kind |-> "generic", lines |-> <<>>]

NoPrompt == [kind |-> "none", lines |-> <<>>]

\* ------------------------------------------------------------- the tasks

\* Where a handler stands (pc), its event (kind, id, present, user, text and
\* the time it arrived), what it holds (prompt, response, reply), how it ended
\* (outcome), and how many times it has started the external call (calls)
\* and message.reply_text (sends).
IdleTask ==
    [pc |-> "idle", kind |-> "none", id |-> 0, present |-> FALSE,
     user |-> NoUser, text |-> NoText, arrived |-> 0, prompt |-> NoPrompt,
     response |-> NoResponse, reply |-> <<>>, outcome |-> "none",
     calls |-> 0, sends |-> 0]

\* A handler that has returned (or raised): the event and what came of it.
Finished(task, outcome) ==
    [task EXCEPT !.pc = "done", !.arrived = 0, !.prompt = NoPrompt,
                 !.response = NoResponse, !.reply = <<>>,
                 !.outcome = outcome]

\* A handler that starts on an event.
Started(kind, has_message, user, text) ==
    [IdleTask EXCEPT !.pc = "entry", !.kind = kind, !.id = nevents + 1,
                     !.present = has_message, !.user = user, !.text = text,
                     !.arrived = now]

Free(t) == tasks[t].pc \in {"idle", "done"}

\* The slot a new handler takes: the first free one of `slots`.
FirstFree(slots, t) == Free(t) /\ \A s \in slots : s < t => ~Free(s)

\* The state in which the handlers start: load_config has returned the
\* configuration and EducationBot.__init__ the empty dictionaries.
InitWith(allow_lists, windows) ==
    /\ environ \in {EnvWith(ids, seconds) :
                        ids \in allow_lists, seconds \in windows}
    /\ boot = "running"
    /\ error = "none"
    /\ token = load_config(environ).value.token
    /\ openai_api_key = load_config(environ).value.openai_api_key
    /\ openai_model = load_config(environ).value.openai_model
    /\ women_user_ids = load_config(environ).value.women_user_ids
    /\ min_reply_seconds = load_config(environ).value.min_reply_seconds
    /\ last_sent = <<>>
    /\ recent_messages = <<>>
    /\ now = 0
    /\ tasks = [t \in Tasks |-> IdleTask]
    /\ nevents = 0
    /\ recorded = <<>>
    /\ last_mark = <<>>
    /\ replied_to = {}

\* handle_message up to its first await: the two gates, the recording of the
\* text, the prompt, and the start of the external call.
handle_message(t, has_message, user, text) ==
    LET task == Started("message", has_message, user, text)
    IN
    /\ Free(t)
    /\ nevents' = nevents + 1
    /\ UNCHANGED <<config, last_sent, now, last_mark, replied_to>>
    /\ IF ~has_message \/ user = NoUser
       THEN /\ tasks' = [tasks EXCEPT ![t] = Finished(task, "absent")]
            /\ UNCHANGED <<recent_messages, recorded>>
       ELSE IF ~Allowed(user)
       THEN /\ tasks' = [tasks EXCEPT ![t] = Finished(task, "denied")]
            /\ UNCHANGED <<recent_messages, recorded>>
       ELSE
         LET recent == IF text # NoText THEN Record(user, text)
                       ELSE recent_messages
         IN /\ recent_messages' = recent
            /\ recorded' = IF text # NoText
                           THEN Put(recorded, user,
                                    Append(Get(recorded, user, <<>>), text))
                           ELSE recorded
            /\ IF ~_can_reply(user)
               THEN tasks' = [tasks EXCEPT
                                  ![t] = Finished(task, "rate_limited")]
               ELSE tasks' = [tasks EXCEPT ![t] =
                        [task EXCEPT
                            !.pc = "request", !.calls = 1,
                            !.prompt = BuildPrompt(Get(recent, user, <<>>))]]

\* A slip in handle_message: the call of _mark_sent is left out.
generate_returns_unmarked(t, resp, choice) ==
    /\ tasks[t].pc = "request"
    /\ tasks' = [tasks EXCEPT ![t].pc = "send",
                              ![t].sends = 1,
                              ![t].arrived = 0,
                              ![t].prompt = NoPrompt,
                              ![t].response = resp,
                              ![t].reply = _generate_reply(resp, choice)]
    /\ UNCHANGED <<config, last_sent, recent_messages, now, nevents, history>>

\* A slip in _generate_reply: a call that fails is made once more.
generate_returns_retrying(t, resp, choice) ==
    /\ tasks[t].pc = "request"
    /\ IF resp.kind # "ok" /\ tasks[t].calls < 2
       THEN /\ tasks' = [tasks EXCEPT ![t].calls = tasks[t].calls + 1]
            /\ UNCHANGED <<last_sent, last_mark>>
       ELSE /\ tasks' = [tasks EXCEPT
                             ![t].pc = "send",
                             ![t].sends = 1,
                             ![t].arrived = 0,
                             ![t].prompt = NoPrompt,
                             ![t].response = resp,
                             ![t].reply = _generate_reply(resp, choice)]
            /\ last_sent' = _mark_sent(tasks[t].user)
            /\ last_mark' = Put(last_mark, tasks[t].user, now)
    /\ UNCHANGED <<config, recent_messages, now, nevents, recorded, replied_to>>

\* The external call returns: _generate_reply yields the reply, handle_message
\* goes on to _mark_sent and starts message.reply_text.
generate_returns(t, resp, choice) ==
    /\ tasks[t].pc = "request"
    /\ tasks' = [tasks EXCEPT ![t].pc = "send",
                              ![t].sends = 1,
                              ![t].arrived = 0,
                              ![t].prompt = NoPrompt,
                              ![t].response = resp,
                              ![t].reply = _generate_reply(resp, choice)]
    /\ last_sent' = _mark_sent(tasks[t].user)
    /\ last_mark' = Put(last_mark, tasks[t].user, now)
    /\ UNCHANGED <<config, recent_messages, now, nevents, recorded, replied_to>>

\* A slip in handle_tip: the tip is counted as a send, as a message reply is.
handle_tip_marks(t, has_message, user, choice) ==
    LET task == Started("tip", has_message, user, NoText)
    IN
    /\ Free(t)
    /\ nevents' = nevents + 1
    /\ IF ~has_message
       THEN /\ tasks' = [tasks EXCEPT ![t] = Finished(task, "absent")]
            /\ UNCHANGED last_sent
       ELSE /\ tasks' = [tasks EXCEPT ![t] =
                     [task EXCEPT !.pc = "send", !.sends = 1, !.arrived = 0,
                                  !.reply = TIPS[choice]]]
            /\ last_sent' = _mark_sent(user)
    /\ UNCHANGED <<config, recent_messages, now, history>>

\* A slip in handle_tip: the sender is tested as handle_message tests it.
handle_tip_needs_sender(t, has_message, user, choice) ==
    LET task == Started("tip", has_message, user, NoText)
    IN
    /\ Free(t)
    /\ nevents' = nevents + 1
    /\ IF ~has_message \/ user = NoUser
       THEN tasks' = [tasks EXCEPT ![t] = Finished(task, "absent")]
       ELSE tasks' = [tasks EXCEPT ![t] =
                [task EXCEPT !.pc = "send", !.sends = 1, !.arrived = 0,
                             !.reply = TIPS[choice]]]
    /\ UNCHANGED <<config, last_sent, recent_messages, now, history>>

\* handle_tip up to its await: a tip for whoever asks, when there is a message.
handle_tip(t, has_message, user, choice) ==
    LET task == Started("tip", has_message, user, NoText)
    IN
    /\ Free(t)
    /\ nevents' = nevents + 1
    /\ IF ~has_message
       THEN tasks' = [tasks EXCEPT ![t] = Finished(task, "absent")]
       ELSE tasks' = [tasks EXCEPT ![t] =
                [task EXCEPT !.pc = "send", !.sends = 1, !.arrived = 0,
                             !.reply = TIPS[choice]]]
    /\ UNCHANGED <<config, last_sent, recent_messages, now, history>>

\* message.reply_text returns (delivered) or raises (the handler fails).
reply_text(t, delivered) ==
    /\ tasks[t].pc = "send"
    /\ tasks' = [tasks EXCEPT ![t] =
            Finished(tasks[t], IF delivered THEN "replied" ELSE "send_failed")]
    /\ replied_to' = IF delivered /\ tasks[t].kind = "message"
                     THEN replied_to \cup {tasks[t].user}
                     ELSE replied_to
    /\ UNCHANGED <<config, last_sent, recent_messages, now, nevents,
                   recorded, last_mark>>

\* time.time() moves on.
Tick(max_time) ==
    /\ now < max_time
    /\ now' = now + 1
    /\ UNCHANGED <<config, last_sent, recent_messages, tasks, nevents, history>>

\* One step of the program, the handlers running in the task slots `slots` and
\* the events and the service's responses drawn from the sets of `in`.
Step(slots, in) ==
    \/ \E t \in slots, has_message \in in.presence, user \in in.users,
          text \in in.texts \cup {NoText} :
           /\ nevents < in.events
           /\ FirstFree(slots, t)
           /\ text = NoText \/ has_message
           /\ text \in in.texts \/ ~has_message
           /\ handle_message(t, has_message, user, text)
    \/ \E t \in slots, resp \in in.responses, choice \in in.choices :
           generate_returns(t, resp, choice)
    \/ \E t \in slots, has_message \in in.presence, user \in in.users,
          choice \in in.choices :
           /\ nevents < in.events
           /\ FirstFree(slots, t)
           /\ handle_tip(t, has_message, user, choice)
    \/ \E t \in slots, delivered \in BOOLEAN : reply_text(t, delivered)
    \/ Tick(in.max_time)

\* The events of the general specifications.
Events ==
    [presence |-> BOOLEAN, users |-> Users \cup {NoUser},
     texts |-> {"a"},
     responses |-> {[kind |-> "ok", content |-> <<"x">>],
                    [kind |-> "error", content |-> <<>>]},
     choices |-> 1 .. Len(TIPS), events |-> MaxEvents, max_time |-> MaxTime]

Init == InitWith(AllowLists, Windows)

\* The application as build_application builds it: concurrent_updates is left
\* at its default, so an update is processed only when the one before it is.
Next == Step({1}, Events)

Spec == Init /\ [][Next]_vars

\* The events of the concurrent specification: two senders with messages
\* that can be told apart, calls that fail, and the first tip.
ConcurrentEvents ==
    [presence |-> {TRUE}, users |-> Users, texts |-> {"a", "b"},
     responses |-> {[kind |-> "error", content |-> <<>>]},
     choices |-> {1}, events |-> MaxEvents,
     max_time |-> MaxRaceTime]

\* The handlers as coroutines that a caller may run concurrently.
NextConcurrent == Step(Tasks, ConcurrentEvents)

SpecConcurrent == Init /\ [][NextConcurrent]_vars

\* The external call comes to an end: the client returns a completion or
\* raises (its requests have a timeout), and the thread of asyncio.to_thread
\* hands the result back to the waiting handler.
CallEnds ==
    \E t \in {1}, resp \in Events.responses, choice \in Events.choices :
        generate_returns(t, resp, choice)

\* The application under the assumption that every external call ends.
SpecCallsEnd == Spec /\ WF_vars(CallEnds)

\* The events of the prompts: a long run of one sender without a rate limit,
\* so that every message is replied to and the history goes past
\* HistoryLimit.  The first event may be a message whose text is empty; the
\* text of the second event is "a" and that of every other one is "b", so
\* that the place of a text in a history and in a prompt can be told.
PromptEvents ==
    [presence |-> {TRUE}, users |-> {1},
     texts |-> IF nevents = 0 THEN {"b", NoText}
               ELSE IF nevents = 1 THEN {"a"} ELSE {"b"},
     responses |-> {[kind |-> "error", content |-> <<>>]},
     choices |-> {1}, events |-> MaxPromptEvents, max_time |-> 1]

InitPrompt == InitWith({<<>>}, {<<"0">>})

NextPrompt == Step(Tasks, PromptEvents)

SpecPrompt == InitPrompt /\ [][NextPrompt]_vars

\* A long run of one sender whose messages can be told apart: the history
\* fills up and goes past HistoryLimit.
HistoryEvents ==
    [presence |-> {TRUE}, users |-> {1}, texts |-> {"a", "b"},
     responses |-> {[kind |-> "error", content |-> <<>>]},
     choices |-> {1}, events |-> MaxHistoryEvents, max_time |-> 1]

InitHistory == InitWith({<<>>}, {<<"2">>})

NextHistory == Step({1}, HistoryEvents)

SpecHistory == InitHistory /\ [][NextHistory]_vars

\* A short run in which the external service answers in every way it can.
GenerateEvents ==
    [presence |-> {TRUE}, users |-> {1}, texts |-> {"a"},
     responses |-> Responses, choices |-> 1 .. Len(TIPS),
     events |-> MaxGenerateEvents, max_time |-> 1]

InitGenerate == InitWith({<<>>}, {<<"0">>})

NextGenerate == Step({1}, GenerateEvents)

SpecGenerate == InitGenerate /\ [][NextGenerate]_vars

\* The scenario of the specification: participant 42 in the allow-list, a
\* window of 5 seconds, messages while the clock goes from 0 to 6.
ScenarioEvents ==
    [presence |-> {TRUE}, users |-> {42}, texts |-> {"a"},
     responses |-> {[kind |-> "ok", content |-> <<"x">>]},
     choices |-> {1}, events |-> MaxEvents, max_time |-> MaxScenarioTime]

InitScenario == InitWith({<<"4", "2">>}, {<<"5">>})

NextScenario == Step({1}, ScenarioEvents)

SpecScenario == InitScenario /\ [][NextScenario]_vars

\* All texts over RawChars of length at most n.
RECURSIVE RawsUpTo(_)
RawsUpTo(n) ==
    IF n = 0 THEN {<<>>}
    ELSE LET shorter == RawsUpTo(n - 1)
         IN shorter \cup {Append(s, c) : s \in shorter, c \in RawChars}

\* The choice of leaving a name of the environment unset.
Unset == <<"unset">>

\* A dict of the names of `names` that `choice` sets.
EnvOf(names, choice) ==
    [name \in {n \in names : choice[n] # Unset} |-> choice[name]]

EnvNames ==
    {"BOT_TOKEN", "OPENAI_API_KEY", "CHAT_GPT_TOKEN", "OPENAI_MODEL",
     "WOMEN_USER_IDS", "MIN_REPLY_SECONDS"}

\* The environments of the start: every WOMEN_USER_IDS up to MaxRawLen and the
\* example with the other names in order, and every combination of a name
\* unset, blank, padded, or set to a text that int() takes or refuses.
Environs ==
    {EnvWith(ids, <<"2">>) : ids \in RawsUpTo(MaxRawLen) \cup {ExampleRaw}}
    \cup
    {EnvOf(EnvNames, choice) : choice \in
        [BOT_TOKEN : {Unset, <<>>, <<" ">>, <<" ", "t", " ">>},
         OPENAI_API_KEY : {Unset, <<" ">>, <<"k">>},
         CHAT_GPT_TOKEN : {Unset, <<"c", " ">>},
         OPENAI_MODEL : {Unset, <<" ", "m">>},
         WOMEN_USER_IDS : {Unset, <<"1">>, <<"²">>},
         MIN_REPLY_SECONDS :
             {Unset, <<"7">>, <<>>, <<"a", "b", "c">>, <<"2", ".", "5">>,
              <<" ", "5", "\n">>, <<"-", "1">>, <<"+", "3">>,
              <<"1", "_", "0">>, <<"_", "1">>, <<"²">>}]}

\* main before load_config.
InitParse ==
    /\ environ \in Environs
    /\ boot = "start"
    /\ error = "none"
    /\ token = <<>>
    /\ openai_api_key = <<>>
    /\ openai_model = <<>>
    /\ women_user_ids = {}
    /\ min_reply_seconds = 0
    /\ last_sent = <<>>
    /\ recent_messages = <<>>
    /\ now = 0
    /\ tasks = [t \in Tasks |-> IdleTask]
    /\ nevents = 0
    /\ recorded = <<>>
    /\ last_mark = <<>>
    /\ replied_to = {}

\* main up to build_application: config = load_config(); an exception of
\* load_config ends the program before the application is built.
main ==
    /\ boot = "start"
    /\ LET loaded == load_config(environ)
       IN /\ error' = loaded.raised
          /\ boot' = IF loaded.raised = "none" THEN "running" ELSE "failed"
          /\ token' = loaded.value.token
          /\ openai_api_key' = loaded.value.openai_api_key
          /\ openai_model' = loaded.value.openai_model
          /\ women_user_ids' = loaded.value.women_user_ids
          /\ min_reply_seconds' = loaded.value.min_reply_seconds
    /\ UNCHANGED <<environ, last_sent, recent_messages, now, tasks, nevents,
                   history>>

NextParse == main

SpecParse == InitParse /\ [][NextParse]_vars

\* ------------------------------------------------------------ the claims

\* The steps of a handler, as seen from the two states of a step.
Entered(t) == nevents' = nevents + 1 /\ tasks'[t].id = nevents'
Returned(t) == tasks[t].pc = "request" /\ tasks'[t].pc = "send"
Sent(t) == tasks[t].pc = "send" /\ tasks'[t].pc = "done"

\* The message handler of slot t is past both gates.
Accepted(task) == task.kind = "message" /\ task.pc = "request"

TipSet == {TIPS[i] : i \in 1 .. Len(TIPS)}

\* C1: under every interleaving of the handlers, a _can_reply that is
\* accepted for a participant after a _mark_sent for that participant comes
\* at least min_reply_seconds after that _mark_sent.
C1_RepliesSpacedApart ==
    [][\A t \in Tasks :
        (Entered(t) /\ Accepted(tasks'[t])
                    /\ tasks'[t].user \in DOMAIN last_mark)
            => now - last_mark[tasks'[t].user] >= min_reply_seconds]_vars

\* A message is past the rate gate a full window after the sender's last mark.
C1_Witness ==
    \E t \in Tasks :
        /\ Accepted(tasks[t])
        /\ min_reply_seconds > 0
        /\ tasks[t].user \in DOMAIN last_mark
        /\ tasks[t].arrived - last_mark[tasks[t].user] >= min_reply_seconds

\* C2: with a non-empty allow-list, a free-text message of a participant
\* outside it never gets past the access gate: no generative call is started
\* for it and no reply is sent or attempted.
C2_NoReplyOutsideAllowList ==
    women_user_ids # {} =>
        \A t \in Tasks :
            (tasks[t].kind = "message" /\ tasks[t].user \notin women_user_ids)
                => /\ tasks[t].pc \notin {"request", "send"}
                   /\ tasks[t].outcome \notin {"replied", "send_failed"}

\* A message of user 2 was turned away after user 1 had been replied to.
C2_Witness ==
    /\ women_user_ids = {1}
    /\ 1 \in DOMAIN last_sent
    /\ \E t \in Tasks :
           /\ tasks[t].kind = "message" /\ tasks[t].present
           /\ tasks[t].user = 2 /\ tasks[t].outcome = "denied"

\* C3: a participant's history never holds more than 10 texts, and it is the
\* last min(n, 10) of the n texts recorded for the participant, in the order
\* of their recording.
C3_HistoryIsLastTen ==
    \A p \in DOMAIN recent_messages :
        LET buffer == recent_messages[p]
            all == Get(recorded, p, <<>>)
        IN /\ Len(buffer) <= 10
           /\ Len(buffer) = IF Len(all) < 10 THEN Len(all) ELSE 10
           /\ \A i \in 1 .. Len(buffer) :
                  buffer[i] = all[Len(all) - Len(buffer) + i]

\* An 11th text was recorded and the oldest one is gone from the history.
C3_Witness ==
    \E p \in DOMAIN recent_messages :
        /\ Len(recorded[p]) = 11
        /\ Len(recent_messages[p]) = 10
        /\ recorded[p][1] = "a"
        /\ recent_messages[p][1] = "b"

\* s is whitespace from position i to position j.
Blank(s, i, j) == \A k \in i .. j : s[k] \in Whitespace

\* r is s without its leading and trailing whitespace, and is not empty.
TrimmedFrom(r, s) ==
    \E i \in 1 .. Len(s), j \in 1 .. Len(s) :
        /\ i <= j
        /\ s[i] \notin Whitespace /\ s[j] \notin Whitespace
        /\ Blank(s, 1, i - 1) /\ Blank(s, j + 1, Len(s))
        /\ r = SubSeq(s, i, j)

\* C4: whatever the external call comes to, _generate_reply returns a
\* non-empty text to handle_message: the trimmed completion when the call
\* succeeds with text that is not all whitespace, and a member of TIPS in
\* every other case (exception, malformed response, empty trimmed text).
C4_GenerateAlwaysReplies ==
    \A t \in Tasks :
        (tasks[t].kind = "message" /\ tasks[t].pc = "send") =>
            LET resp == tasks[t].response
                reply == tasks[t].reply
            IN /\ reply # <<>>
               /\ IF resp.kind = "ok" /\ ~Blank(resp.content, 1, Len(resp.content))
                  THEN TrimmedFrom(reply, resp.content)
                  ELSE reply \in TipSet

\* The service answered with only whitespace and a tip stands in for it.
C4_Witness ==
    \E t \in Tasks :
        /\ tasks[t].kind = "message" /\ tasks[t].pc = "send"
        /\ tasks[t].response = [kind |-> "ok", content |-> <<" ", "\n">>]
        /\ tasks[t].reply = TIPS[8]

\* C5: a message that is past the access gate is past the rate gate exactly
\* when its sender has no entry in last_sent or now - last_sent[sender] >=
\* min_reply_seconds; and _mark_sent sets the sender's entry to the current
\* time and leaves every other entry as it was.
C5_RateLimiterContract ==
    [][\A t \in Tasks :
        /\ (Entered(t) /\ tasks'[t].kind = "message"
                       /\ tasks'[t].outcome \notin {"absent", "denied"})
            => (Accepted(tasks'[t])
                    <=> (\/ tasks'[t].user \notin DOMAIN last_sent
                         \/ now - last_sent[tasks'[t].user]
                                >= min_reply_seconds))
        /\ Returned(t)
            => /\ DOMAIN last_sent' = DOMAIN last_sent \cup {tasks[t].user}
               /\ last_sent'[tasks[t].user] = now
               /\ \A q \in DOMAIN last_sent \ {tasks[t].user} :
                      last_sent'[q] = last_sent[q]]_vars

\* A message is past the rate gate exactly one window after the last mark,
\* while another participant has an entry of its own.
C5_Witness ==
    \E t \in Tasks :
        /\ Accepted(tasks[t])
        /\ tasks[t].user \in DOMAIN last_sent
        /\ tasks[t].arrived - last_sent[tasks[t].user] = min_reply_seconds
        /\ \E q \in DOMAIN last_sent : q # tasks[t].user

\* The message handler of slot t is past the access gate.
PastAccessGate(task) ==
    task.kind = "message" /\ task.outcome \notin {"absent", "denied"}

\* C6 as claimed: handled one at a time, the first message of an allowed
\* participant, arriving at time t, is replied to and leaves last_sent[p] = t,
\* whatever the duration of the generative call; a later message gets no
\* reply when it arrives less than min_reply_seconds after that, and gets
\* one otherwise.  (The claim takes last_sent[p] to be the arrival time t,
\* so the two later cases are stated against last_sent[p].)
C6_ScenarioAsClaimed ==
    [][\A t \in Tasks :
        /\ (Entered(t) /\ PastAccessGate(tasks'[t])
                       /\ tasks'[t].user \notin DOMAIN last_sent)
            => Accepted(tasks'[t])
        /\ (Returned(t) /\ tasks[t].user \notin DOMAIN last_sent)
            => last_sent'[tasks[t].user] = tasks[t].arrived
        /\ (Entered(t) /\ PastAccessGate(tasks'[t])
                       /\ tasks'[t].user \in DOMAIN last_sent)
            => IF now - last_sent[tasks'[t].user] < min_reply_seconds
               THEN tasks'[t].outcome = "rate_limited"
               ELSE Accepted(tasks'[t])]_vars

\* C6, amended: handled one at a time, the first message of an allowed
\* participant is replied to and leaves last_sent[p] = m, the time at which
\* its generative call returned, which is the arrival time or later; a later
\* message gets no reply when it arrives less than min_reply_seconds after
\* m, and gets one otherwise.
C6_ScenarioFromMark ==
    [][\A t \in Tasks :
        /\ (Entered(t) /\ PastAccessGate(tasks'[t])
                       /\ tasks'[t].user \notin DOMAIN last_sent)
            => Accepted(tasks'[t])
        /\ Returned(t)
            => /\ last_sent'[tasks[t].user] = now
               /\ now >= tasks[t].arrived
        /\ (Entered(t) /\ PastAccessGate(tasks'[t])
                       /\ tasks'[t].user \in DOMAIN last_sent)
            => IF now - last_sent[tasks'[t].user] < min_reply_seconds
               THEN tasks'[t].outcome = "rate_limited"
               ELSE Accepted(tasks'[t])]_vars

\* The first call took a second (mark at 1) and the message arriving at 6 is
\* past the rate gate.
C6_Witness ==
    /\ min_reply_seconds = 5
    /\ 42 \in DOMAIN last_sent
    /\ last_sent[42] = 1
    /\ \E t \in Tasks :
           Accepted(tasks[t]) /\ tasks[t].user = 42 /\ tasks[t].arrived = 6

\* C7: a tip command with a message gets a member of TIPS as its reply for
\* any sender, allowed or not and rate-limited or not, and neither the start
\* of handle_tip nor the delivery of the tip changes last_sent or
\* recent_messages.
C7_TipBypassesGates ==
    [][\A t \in Tasks :
        /\ (Entered(t) /\ tasks'[t].kind = "tip" /\ tasks'[t].present)
            => /\ tasks'[t].pc = "send"
               /\ tasks'[t].reply \in TipSet
               /\ last_sent' = last_sent
               /\ recent_messages' = recent_messages
        /\ (Sent(t) /\ tasks[t].kind = "tip")
            => /\ last_sent' = last_sent
               /\ recent_messages' = recent_messages]_vars

\* A tip is on its way to a sender whom the rate limiter would turn away.
C7_Witness ==
    \E t \in Tasks :
        /\ tasks[t].kind = "tip" /\ tasks[t].pc = "send"
        /\ tasks[t].reply \in TipSet
        /\ tasks[t].user \in DOMAIN last_sent
        /\ now - last_sent[tasks[t].user] < min_reply_seconds

\* C8 as claimed: a tip command whose sender is absent gets no reply.
C8_TipWithoutSenderRejected ==
    \A t \in Tasks :
        (tasks[t].kind = "tip" /\ tasks[t].user = NoUser)
            => /\ tasks[t].pc # "send"
               /\ tasks[t].outcome \notin {"replied", "send_failed"}

\* C8, amended: a tip command whose message is absent is a no-op, no reply
\* and no change of last_sent or recent_messages; a tip command with a
\* message and no sender is replied to with a tip like any other.
C8_TipWithoutMessageRejected ==
    [][\A t \in Tasks :
        (Entered(t) /\ tasks'[t].kind = "tip")
            => /\ last_sent' = last_sent
               /\ recent_messages' = recent_messages
               /\ IF tasks'[t].present
                  THEN tasks'[t].pc = "send" /\ tasks'[t].reply \in TipSet
                  ELSE tasks'[t].pc = "done"
                           /\ tasks'[t].outcome = "absent"]_vars

\* A tip command without a message was dropped; the state holds entries that
\* it left alone.
C8_Witness ==
    /\ last_sent # <<>>
    /\ \E t \in Tasks :
           /\ tasks[t].kind = "tip" /\ ~tasks[t].present
           /\ tasks[t].outcome = "absent"

\* C9: a message with a sender is turned away at the access gate exactly
\* when the allow-list is non-empty and the sender is not in it.
C9_AccessGate ==
    \A t \in Tasks :
        (tasks[t].kind = "message" /\ tasks[t].present
                                   /\ tasks[t].user # NoUser)
            => (tasks[t].outcome = "denied"
                    <=> (women_user_ids # {}
                             /\ tasks[t].user \notin women_user_ids))

\* With an empty allow-list a message is past both gates.
C9_Witness ==
    /\ women_user_ids = {}
    /\ \E t \in Tasks : Accepted(tasks[t]) /\ tasks[t].user = 2

\* C10: a message with text of an allowed participant that the rate limiter
\* turns away is appended to the participant's history (cut to the last 10)
\* in the same step, the handler returns without a generative call or a
\* reply, and last_sent is unchanged.
C10_RateLimitedStillRecorded ==
    [][\A t \in Tasks :
        (Entered(t) /\ tasks'[t].kind = "message"
                    /\ tasks'[t].outcome = "rate_limited")
            => LET u == tasks'[t].user
                   appended == Append(Get(recent_messages, u, <<>>),
                                      tasks'[t].text)
               IN /\ tasks'[t].text # NoText
                      => /\ u \in DOMAIN recent_messages'
                         /\ recent_messages'[u] =
                                IF Len(appended) > 10
                                THEN SubSeq(appended, 2, 11)
                                ELSE appended
                  /\ tasks'[t].pc = "done"
                  /\ tasks'[t].reply = <<>>
                  /\ last_sent' = last_sent]_vars

\* A rate-limited message is in the history behind the one replied to.
C10_Witness ==
    \E t \in Tasks :
        /\ tasks[t].kind = "message" /\ tasks[t].outcome = "rate_limited"
        /\ tasks[t].text = "a"
        /\ tasks[t].user \in DOMAIN recent_messages
        /\ Len(recent_messages[tasks[t].user]) >= 2

\* A step that dispatches an event of participant u to a handler.
DispatchedFor(u) ==
    /\ nevents' = nevents + 1
    /\ \E s \in Tasks : tasks'[s].id = nevents' /\ tasks'[s].user = u

\* C11: a generative call in flight never blocks the events of the other
\* participants: while a handler waits for its call, and events are left,
\* the application can dispatch an event of a different participant.
C11_SlowCallBlocksNobody ==
    \A t \in Tasks :
        (Accepted(tasks[t]) /\ nevents < MaxEvents)
            => \E u \in Users \ {tasks[t].user} :
                   ENABLED (Next /\ DispatchedFor(u))

\* C12: two messages of one participant handled concurrently race on the
\* rate limiter.  The check of _can_reply and the _mark_sent of a handler are
\* two steps with the generative call between them: the entry of a message
\* handler leaves last_sent alone, and each return of a call overwrites the
\* sender's entry with the current time whatever the entry was, so that
\* last_sent[p] is always the time of the _mark_sent that ran last.
C12_LastWriterWins ==
    [][\A t \in Tasks :
        /\ (Entered(t) /\ tasks'[t].kind = "message")
            => last_sent' = last_sent
        /\ Returned(t)
            => /\ last_sent' = Put(last_sent, tasks[t].user, now)
               /\ \A p \in DOMAIN last_mark' :
                      p \in DOMAIN last_sent' /\ last_sent'[p] = last_mark'[p]]_vars

\* Two messages of one participant were both replied to within one window:
\* both were past the rate gate before either was marked, and last_sent holds
\* the time of the later mark.
C12_Witness ==
    \E t1 \in Tasks, t2 \in Tasks :
        /\ t1 # t2
        /\ tasks[t1].kind = "message" /\ tasks[t2].kind = "message"
        /\ tasks[t1].user = tasks[t2].user
        /\ tasks[t1].outcome = "replied" /\ tasks[t2].outcome = "replied"
        /\ now < min_reply_seconds
        /\ last_sent[tasks[t1].user] = 1

\* The outcomes of a message that a gate turned away.
Rejected == {"absent", "denied", "rate_limited"}

\* C13: if every external call ends, a message that is past both gates comes
\* to have its one reply handed to message.reply_text after one external
\* call; no handler makes a second call or a second reply, and a message
\* turned away at either gate is left with no call and no reply.
C13_OneCallOneReply ==
    /\ \A i \in 1 .. MaxEvents :
           (Accepted(tasks[1]) /\ tasks[1].id = i)
               ~> (/\ tasks[1].id = i /\ tasks[1].pc = "send"
                   /\ tasks[1].reply # <<>>
                   /\ tasks[1].calls = 1 /\ tasks[1].sends = 1)
    /\ [](\A t \in Tasks :
            /\ tasks[t].calls <= 1 /\ tasks[t].sends <= 1
            /\ (tasks[t].kind = "message" /\ tasks[t].pc \in {"request", "send"})
                => tasks[t].calls = 1
            /\ (tasks[t].kind = "message" /\ tasks[t].outcome \in Rejected)
                => tasks[t].calls = 0 /\ tasks[t].sends = 0
            /\ (tasks[t].kind = "message"
                    /\ tasks[t].outcome \in {"replied", "send_failed"})
                => tasks[t].calls = 1 /\ tasks[t].sends = 1)

\* The call of a message failed and the message was replied to all the same,
\* after one call and with one reply.
C13_Witness ==
    \E t \in Tasks :
        /\ tasks[t].kind = "message" /\ tasks[t].pc = "send"
        /\ tasks[t].response.kind = "error"
        /\ tasks[t].reply \in TipSet
        /\ tasks[t].calls = 1 /\ tasks[t].sends = 1

\* The entries of raw that are numeric after trimming, as the numbers they
\* denote.
DenotedIds(raw) ==
    LET values == split(raw)
        numeric == {i \in 1 .. Len(values) :
                       LET v == strip(values[i])
                       IN v # <<>> /\ \A k \in 1 .. Len(v) : v[k] \in DecimalDigits}
    IN {DecimalValue(strip(values[i])) : i \in numeric}

\* C14: parse_user_ids never fails, and it returns exactly the set of the
\* integers denoted by the comma-separated entries that are numeric after
\* trimming; every other entry is dropped, the empty text yields the empty
\* set and duplicates collapse: load_config never ends with the exception of
\* parse_user_ids, and the allow-list of the configuration that it returns
\* is that set.
C14_ParseNeverFails ==
    /\ error # "ValueError: parse_user_ids"
    /\ boot = "running"
        => women_user_ids = DenotedIds(Get(environ, "WOMEN_USER_IDS", <<>>))

\* C15: a message that is turned away at the first step of handle_message
\* (no message, no sender, or a sender outside a non-empty allow-list) is a
\* no-op: the handler returns in that step, recent_messages and last_sent are
\* as they were, and no generative call and no reply is made.
C15_RejectedIsNoOp ==
    [][\A t \in Tasks :
        (/\ Entered(t) /\ tasks'[t].kind = "message"
         /\ \/ ~tasks'[t].present
            \/ tasks'[t].user = NoUser
            \/ (women_user_ids # {} /\ tasks'[t].user \notin women_user_ids))
            => /\ recent_messages' = recent_messages
               /\ last_sent' = last_sent
               /\ tasks'[t].pc = "done"
               /\ tasks'[t].outcome \in {"absent", "denied"}
               /\ tasks'[t].calls = 0 /\ tasks'[t].sends = 0]_vars

\* A message without a sender was dropped; the dictionaries hold entries that
\* it left alone.
C15_Witness ==
    /\ last_sent # <<>>
    /\ recent_messages # <<>>
    /\ \E t \in Tasks :
           /\ tasks[t].kind = "message" /\ tasks[t].present
           /\ tasks[t].user = NoUser /\ tasks[t].outcome = "absent"
           /\ tasks[t].calls = 0

\* C16: in handle_message, _mark_sent runs when the reply text has been
\* produced and before the reply is delivered: the step in which the call
\* returns yields a non-empty reply and sets last_sent of the sender to the
\* current time, last_sent changes in no other step, and the delivery,
\* whether it succeeds or fails, finds the sender's entry and leaves it.
C16_MarkBeforeDelivery ==
    [][/\ \A t \in Tasks :
            /\ Returned(t)
                => /\ tasks'[t].reply # <<>>
                   /\ tasks[t].user \in DOMAIN last_sent'
                   /\ last_sent'[tasks[t].user] = now
            /\ (Sent(t) /\ tasks[t].kind = "message")
                => /\ tasks[t].user \in DOMAIN last_sent
                   /\ last_sent[tasks[t].user] <= now
                   /\ last_sent' = last_sent
       /\ last_sent' # last_sent => \E t \in Tasks : Returned(t)]_vars

\* The delivery of the reply to the first message failed, and the sender has
\* an entry in last_sent all the same.
C16_Witness ==
    /\ nevents = 1
    /\ \E t \in Tasks :
           /\ tasks[t].kind = "message" /\ tasks[t].outcome = "send_failed"
           /\ tasks[t].user \in DOMAIN last_sent

\* C17 as claimed: last_sent has an entry for a participant only if a reply
\* has been successfully sent to the participant by the message path; entries
\* are never removed, and the set of participants with an entry only grows.
C17_EntryOnlyAfterDelivery ==
    [][/\ \A p \in DOMAIN last_sent' : p \in replied_to'
       /\ DOMAIN last_sent \subseteq DOMAIN last_sent']_vars

\* C17, amended: last_sent has an entry for a participant only if the message
\* path has produced a reply for a message of the participant and run
\* _mark_sent for it, whether the delivery of that reply is still under way,
\* has succeeded or has failed; every participant whom a message reply was
\* delivered to has an entry; entries are never removed, and the set of
\* participants with an entry only grows.
C17_EntryOnlyAfterMark ==
    [][/\ \A p \in DOMAIN last_sent' : p \in DOMAIN last_mark'
       /\ replied_to' \subseteq DOMAIN last_sent'
       /\ DOMAIN last_sent \subseteq DOMAIN last_sent']_vars

\* A participant has an entry and no reply was ever delivered to them: the
\* delivery of the one reply failed.
C17_Witness ==
    \E t \in Tasks :
        /\ tasks[t].kind = "message" /\ tasks[t].outcome = "send_failed"
        /\ tasks[t].user \in DOMAIN last_sent
        /\ tasks[t].user \notin replied_to

\* C18: the prompt of a message that is past both gates enumerates, from 1
\* and oldest first, the sender's history as it stands right after the
\* message was recorded: at most 10 lines, the text of the message last; the
\* generic prompt is used exactly when that history is empty.  The prompt is
\* fixed in the step that starts the call: while the call is in flight it
\* does not change, whatever is recorded meanwhile.
C18_PromptIsHistoryAtEntry ==
    [][\A t \in Tasks :
        /\ (Entered(t) /\ Accepted(tasks'[t]))
            => LET buffer == Get(recent_messages', tasks'[t].user, <<>>)
                   prompt == tasks'[t].prompt
               IN /\ (prompt.kind = "generic") <=> (buffer = <<>>)
                  /\ (prompt.kind = "history") <=> (buffer # <<>>)
                  /\ Len(prompt.lines) = Len(buffer)
                  /\ Len(prompt.lines) <= 10
                  /\ \A i \in 1 .. Len(buffer) :
                         prompt.lines[i] = <<i, buffer[i]>>
                  /\ tasks'[t].text # NoText
                         => /\ buffer # <<>>
                            /\ buffer[Len(buffer)] = tasks'[t].text
        /\ (Accepted(tasks[t]) /\ Accepted(tasks'[t]) /\ ~Entered(t))
            => tasks'[t].prompt = tasks[t].prompt]_vars

\* Twelve texts were recorded.  A call is in flight with the prompt of the
\* eleventh message: its 10 lines are the second to the eleventh text, the
\* first text left out and the text "a" of the second message in line 1.  The
\* twelfth message was recorded since, and the history, which has moved on
\* to the third to the twelfth text, is no longer what the prompt lists.
C18_Witness ==
    \E t \in Tasks :
        /\ Accepted(tasks[t])
        /\ Len(Get(recorded, tasks[t].user, <<>>)) = 12
        /\ recorded[tasks[t].user][2] = "a"
        /\ tasks[t].prompt.kind = "history"
        /\ Len(tasks[t].prompt.lines) = 10
        /\ tasks[t].prompt.lines[1] = <<1, "a">>
        /\ tasks[t].prompt.lines[10] = <<10, tasks[t].text>>
        /\ Len(recent_messages[tasks[t].user]) = 10
        /\ recent_messages[tasks[t].user][1] = "b"

\* C19: the external call is the only suspension between the entry of a
\* message and its _mark_sent, and the recording is part of the entry step.
\* Under every interleaving of the handlers, the step that enters a message
\* with text past the access gate appends that text, once, to the sender's
\* history cut to the last 10 and leaves the other histories alone; no other
\* step changes recent_messages; a message handler leaves its entry step
\* finished or waiting for the call, and leaves the call by running
\* _mark_sent.  So each history is the last up-to-10 of the texts recorded
\* for the participant, in the order in which their handlers started.
C19_RecordingIsAtomic ==
    [][/\ \A t \in Tasks :
            /\ (Entered(t) /\ PastAccessGate(tasks'[t])
                           /\ tasks'[t].text # NoText)
                => LET u == tasks'[t].user
                       before == Get(recent_messages, u, <<>>)
                       after == recent_messages'[u]
                   IN /\ DOMAIN recent_messages'
                             = DOMAIN recent_messages \cup {u}
                      /\ Len(after) = IF Len(before) < 10
                                      THEN Len(before) + 1 ELSE 10
                      /\ after[Len(after)] = tasks'[t].text
                      /\ \A i \in 1 .. Len(after) - 1 :
                             after[i] = before[Len(before) - Len(after) + 1 + i]
                      /\ \A q \in DOMAIN recent_messages \ {u} :
                             recent_messages'[q] = recent_messages[q]
                      /\ recorded'[u] = Append(Get(recorded, u, <<>>),
                                               tasks'[t].text)
            /\ (Entered(t) /\ tasks'[t].kind = "message")
                => tasks'[t].pc \in {"done", "request"}
            /\ (Accepted(tasks[t]) /\ tasks'[t] # tasks[t])
                => /\ Returned(t)
                   /\ last_sent'[tasks[t].user] = now
       /\ recent_messages' # recent_messages
            => \E t \in Tasks :
                   Entered(t) /\ PastAccessGate(tasks'[t])
                              /\ tasks'[t].text # NoText]_vars

\* Two messages of one participant are both waiting for their calls, and the
\* history holds the two texts in the order in which the handlers started.
C19_Witness ==
    \E t1 \in Tasks, t2 \in Tasks :
        /\ Accepted(tasks[t1]) /\ Accepted(tasks[t2])
        /\ tasks[t1].user = tasks[t2].user
        /\ tasks[t1].id < tasks[t2].id
        /\ tasks[t1].text = "b" /\ tasks[t2].text = "a"
        /\ recorded[tasks[t1].user] = <<"b", "a">>
        /\ recent_messages[tasks[t1].user] = <<"b", "a">>

====
